---- MODULE Spec2Model ----
(***************************************************************************)
(* Fault-injection decorators of chitchat's transport layer                *)
(* (src/chitchat/src/transport/utils.rs): TransportWithDelay /             *)
(* SocketWithDelay and TransportWithMessageDrop / SocketWithMessageDrop.   *)
(*                                                                         *)
(* Every peer address has one owning activity that opens a socket from the *)
(* decorated transport and then calls send and recv on it, one call at a   *)
(* time (both take &mut self).  A delay-decorated send spawns a detached   *)
(* task; the tasks and the owner's recv share the wrapped socket behind a  *)
(* tokio RwLock that is only ever write-locked.                            *)
(***************************************************************************)
EXTENDS Integers, Sequences, FiniteSets, TLC

\* ------------------------------------------------------------------ bounds
\* send calls made on the sockets, all peers together
MaxSends == 2
\* largest number of seconds a delay distribution yields
MaxDelay == 1
\* open calls made on the transport, all addresses together
MaxOpens == 2

\* ------------------------------------------------------------------ values
Peers == {"A", "B"}
Msgs == {"m1", "m2"}

\* Result<(), TransportError> and Result<(SocketAddr, ChitchatMessage), TransportError>
Ok == [tag |-> "Ok"]
Err(e) == [tag |-> "Err", err |-> e]
OkMsg(from, msg) == [tag |-> "Ok", from |-> from, msg |-> msg]
OkSocket(h) == [tag |-> "Ok", socket |-> h]

\* the value of a call that was not made
NotCalled == [tag |-> "NotCalled"]
\* an address with no decorated socket
NoSocket == [kind |-> "none"]
\* the owner has made no call yet
NoCall == [op |-> "none"]

\* the owning activity as a contender for the lock; deferred-delivery tasks
\* are numbered 1, 2, ... in the order of the send calls that spawned them
Owner == 0

\* drop probabilities, in percent: Bernoulli::new accepts exactly [0, 1]
Probabilities == {0, 50, 100}

\* delay distributions, each given by the set of seconds it can yield (the
\* distribution's contract is a non-negative number of seconds): constant 0,
\* and any number of seconds up to MaxDelay
DelayDists == {{0}, 0..MaxDelay}

VARIABLES
    transport,   \* the decorated transport: its decorator and policy parameter
    reliable,    \* whether the wrapped transport never fails
    bound,       \* addresses the wrapped transport has bound
    base_opens,  \* per address: how often the wrapped transport's open was called with it
    opens,       \* per address: how often the decorated transport's open was called with it
    socket,      \* per address: the decorated socket open returned
    pc,          \* per peer: where its owning activity is
    last,        \* per peer: the owner's last completed call and what it returned
    sends,       \* per peer: send calls made on the decorated socket
    draws,       \* per peer: samples drawn from the socket's rng
    tasks,       \* per peer: the deferred-delivery tasks its sends spawned
    holders,     \* per peer: who holds the lock on the wrapped socket
    waitq,       \* per peer: who waits for that lock, in arrival order
    inbox,       \* per address: messages the network has delivered, not yet received
    wire         \* per peer: the calls of the wrapped socket's send, in order

vars == <<transport, reliable, bound, base_opens, opens, socket, pc, last, sends,
          draws, tasks, holders, waitq, inbox, wire>>

\* ------------------------------------------------- the wrapped transport
\* Transport::open of the wrapped transport: binds the address, or fails
WrappedOpenOutcomes(addr) ==
    IF addr \in bound
    THEN {Err("AddrInUse")}
    ELSE {OkSocket(addr)} \cup (IF reliable THEN {} ELSE {Err("Io")})

\* Socket::send of the wrapped socket: hands the message off, or fails
WrappedSendOutcomes ==
    {Ok} \cup (IF reliable THEN {} ELSE {Err("SendErr")})

\* Socket::recv of the wrapped socket h: the oldest message delivered to it,
\* or a failure; with neither it stays suspended
WrappedRecvOutcomes(h) ==
    (IF inbox[h] # <<>> THEN {OkMsg(Head(inbox[h]).from, Head(inbox[h]).msg)} ELSE {})
    \cup (IF reliable THEN {} ELSE {Err("RecvErr")})

\* the network after the wrapped socket of `from` sent msg to `to` with result r
InboxAfterSend(from, to, msg, r) ==
    IF r = Ok
    THEN [inbox EXCEPT ![to] = Append(@, [from |-> from, msg |-> msg])]
    ELSE inbox

\* the network after the wrapped socket h returned r from recv
InboxAfterRecv(h, r) ==
    IF r.tag = "Ok" THEN [inbox EXCEPT ![h] = Tail(@)] ELSE inbox

\* ------------------------------------------------------ sampling, the lock
\* mutant: the sampler compares a random number with p for every p, without
\* the special case that makes probability 1 certain
BernoulliSampleNoCertainty(p) == IF p = 0 THEN {FALSE} ELSE {TRUE, FALSE}

\* Bernoulli::sample for a probability given in percent
BernoulliSample(p) ==
    IF p = 100 THEN {TRUE} ELSE IF p = 0 THEN {FALSE} ELSE {TRUE, FALSE}

\* mutant: a negative sample is taken as a delay as it is, without a panic
FromSecsNeverPanics(secs) == FALSE

\* Duration::from_secs_f32 panics on a negative number of seconds
FromSecsPanics(secs) == secs < 0

\* mutant: the lock is taken for reading, which any number may hold at once
CanAcquireShared(a) == TRUE

\* RwLock::write finds the lock free: nobody holds it and nobody waits for it
CanAcquire(a) == holders[a] = {} /\ waitq[a] = <<>>

\* RwLock::write called by p: taken at once, or p joins the queue
HoldersAfterWrite(a, p) == IF CanAcquire(a) THEN holders[a] \cup {p} ELSE holders[a]
WaitqAfterWrite(a, p) == IF CanAcquire(a) THEN waitq[a] ELSE Append(waitq[a], p)

\* the write guard of p is dropped: the lock passes to the oldest waiter
HoldersAfterDrop(a, p) ==
    IF holders[a] \ {p} = {} /\ waitq[a] # <<>>
    THEN {Head(waitq[a])}
    ELSE holders[a] \ {p}
WaitqAfterDrop(a, p) ==
    IF holders[a] \ {p} = {} /\ waitq[a] # <<>> THEN Tail(waitq[a]) ELSE waitq[a]

\* the calls of the wrapped socket's send and recv in progress at peer a
InFlight(a) ==
    {i \in 1..Len(tasks[a]) : tasks[a][i].st = "sending"}
    \cup (IF pc[a] = "recv_inner" THEN {Owner} ELSE {})

RECURSIVE SumOver(_, _)
SumOver(f, S) ==
    IF S = {} THEN 0 ELSE LET x == CHOOSE y \in S : TRUE IN f[x] + SumOver(f, S \ {x})

\* the calls made so far, all peers together
TotalSends == SumOver(sends, Peers)
TotalOpens == SumOver(opens, Peers)

\* -------------------------------------------------------------------- Init
Init ==
    /\ transport \in {[kind |-> "drop", drop_probability |-> p] : p \in Probabilities}
                     \cup {[kind |-> "delay", delay_secs |-> d] : d \in DelayDists}
    /\ reliable \in BOOLEAN
    /\ bound = {}
    /\ base_opens = [a \in Peers |-> 0]
    /\ opens = [a \in Peers |-> 0]
    /\ socket = [a \in Peers |-> NoSocket]
    /\ pc = [a \in Peers |-> "idle"]
    /\ last = [a \in Peers |-> NoCall]
    /\ sends = [a \in Peers |-> 0]
    /\ draws = [a \in Peers |-> 0]
    /\ tasks = [a \in Peers |-> <<>>]
    /\ holders = [a \in Peers |-> {}]
    /\ waitq = [a \in Peers |-> <<>>]
    /\ inbox = [a \in Peers |-> <<>>]
    /\ wire = [a \in Peers |-> <<>>]

\* -------------------------------------------------------------------- open
\* the socket TransportWithDelay::open builds around the wrapped socket h
DelaySocket(h) == [kind |-> "delay", socket |-> h, delay_secs |-> transport.delay_secs]

\* the socket TransportWithMessageDrop::open builds around the wrapped socket h
DropSocket(h) ==
    [kind |-> "drop", socket |-> h, drop_probability |-> transport.drop_probability]

\* mutant: open replaces the wrapped transport's error by one of its own
OpenReturnOwnError(r) == IF r.tag = "Ok" THEN Ok ELSE Err("Io")

\* what open returns for the wrapped open's result r: `?` passes the error on
OpenReturn(r) == IF r.tag = "Ok" THEN Ok ELSE r

\* the address open passes to the wrapped transport's open
OpenAddr(listen_addr) == listen_addr

\* the bookkeeping of one open call whose wrapped open returned r and which
\* built the socket `built` on success
OpenStep(listen_addr, r, built) ==
    /\ bound' = IF r.tag = "Ok" THEN bound \cup {OpenAddr(listen_addr)} ELSE bound
    /\ socket' = IF r.tag = "Ok" THEN [socket EXCEPT ![listen_addr] = built] ELSE socket
    /\ last' = [last EXCEPT ![listen_addr] =
                   [op |-> "open", val |-> OpenReturn(r), inner |-> r, dropped |-> FALSE]]
    /\ base_opens' = [base_opens EXCEPT ![OpenAddr(listen_addr)] = @ + 1]
    /\ opens' = [opens EXCEPT ![listen_addr] = @ + 1]
    /\ UNCHANGED <<transport, reliable, pc, sends, draws, tasks, holders, waitq, inbox, wire>>

TransportWithDelay_open(listen_addr) ==
    /\ transport.kind = "delay"
    /\ pc[listen_addr] = "idle"
    /\ TotalOpens < MaxOpens
    /\ \E r \in WrappedOpenOutcomes(OpenAddr(listen_addr)) :
        OpenStep(listen_addr, r, IF r.tag = "Ok" THEN DelaySocket(r.socket) ELSE NoSocket)

TransportWithMessageDrop_open(listen_addr) ==
    /\ transport.kind = "drop"
    /\ pc[listen_addr] = "idle"
    /\ TotalOpens < MaxOpens
    /\ \E r \in WrappedOpenOutcomes(OpenAddr(listen_addr)) :
        OpenStep(listen_addr, r, IF r.tag = "Ok" THEN DropSocket(r.socket) ELSE NoSocket)

\* ------------------------------------------------------- SocketWithDelay
\* the deferred-delivery task send spawns: it captures to, message and delay
NewTask(to, message, delay) ==
    [to |-> to, msg |-> message, delay |-> delay, left |-> delay,
     st |-> "sleeping", res |-> NotCalled]

\* mutant: send takes the write guard itself before it returns
SocketWithDelay_send_locking(a, to, message) ==
    /\ socket[a].kind = "delay"
    /\ pc[a] = "idle"
    /\ TotalSends < MaxSends
    /\ holders[a] = {} /\ waitq[a] = <<>>
    /\ \E delay_secs \in socket[a].delay_secs :
        /\ tasks' = [tasks EXCEPT ![a] = Append(@, NewTask(to, message, delay_secs))]
        /\ last' = [last EXCEPT ![a] =
                       [op |-> "send", val |-> Ok, inner |-> NotCalled, dropped |-> FALSE]]
    /\ sends' = [sends EXCEPT ![a] = @ + 1]
    /\ draws' = [draws EXCEPT ![a] = @ + 1]
    /\ UNCHANGED <<transport, reliable, bound, base_opens, opens, socket, pc, holders,
                   waitq, inbox, wire>>

\* send: sample a delay, convert it, spawn the task, return Ok; no await
SocketWithDelay_send(a, to, message) ==
    /\ socket[a].kind = "delay"
    /\ pc[a] = "idle"
    /\ TotalSends < MaxSends
    /\ \E delay_secs \in socket[a].delay_secs :
        IF FromSecsPanics(delay_secs)
        THEN /\ pc' = [pc EXCEPT ![a] = "panicked"]
             /\ UNCHANGED <<tasks, last>>
        ELSE /\ tasks' = [tasks EXCEPT ![a] = Append(@, NewTask(to, message, delay_secs))]
             /\ last' = [last EXCEPT ![a] =
                            [op |-> "send", val |-> Ok, inner |-> NotCalled, dropped |-> FALSE]]
             /\ UNCHANGED pc
    /\ sends' = [sends EXCEPT ![a] = @ + 1]
    /\ draws' = [draws EXCEPT ![a] = @ + 1]
    /\ UNCHANGED <<transport, reliable, bound, base_opens, opens, socket, holders, waitq,
                   inbox, wire>>

\* one second passes for every task asleep in tokio::time::sleep
Tick ==
    /\ \E a \in Peers : \E i \in 1..Len(tasks[a]) :
          tasks[a][i].st = "sleeping" /\ tasks[a][i].left > 0
    /\ tasks' = [a \in Peers |-> [i \in 1..Len(tasks[a]) |->
                    IF tasks[a][i].st = "sleeping" /\ tasks[a][i].left > 0
                    THEN [tasks[a][i] EXCEPT !.left = @ - 1]
                    ELSE tasks[a][i]]]
    /\ UNCHANGED <<transport, reliable, bound, base_opens, opens, socket, pc, last, sends,
                   draws, holders, waitq, inbox, wire>>

\* mutant: the task rewrites the envelope, sending a fixed message back to
\* the sender
WireEntryRewritten(a, i) == [by |-> i, to |-> a, msg |-> "m1"]

\* the call of the wrapped socket's send that task i of peer a makes
WireEntry(a, i) == [by |-> i, to |-> tasks[a][i].to, msg |-> tasks[a][i].msg]

\* mutant: deliveries are serialized in submission order, a task goes for
\* the lock only once every task spawned before it has finished
TaskWakeInOrder(a, i) ==
    /\ i \in 1..Len(tasks[a])
    /\ tasks[a][i].st = "sleeping"
    /\ tasks[a][i].left = 0
    /\ \A j \in 1..(i - 1) : tasks[a][j].st = "done"
    /\ IF CanAcquire(a)
       THEN /\ tasks' = [tasks EXCEPT ![a][i].st = "sending"]
            /\ wire' = [wire EXCEPT ![a] = Append(@, WireEntry(a, i))]
       ELSE /\ tasks' = [tasks EXCEPT ![a][i].st = "waiting"]
            /\ UNCHANGED wire
    /\ holders' = [holders EXCEPT ![a] = HoldersAfterWrite(a, i)]
    /\ waitq' = [waitq EXCEPT ![a] = WaitqAfterWrite(a, i)]
    /\ UNCHANGED <<transport, reliable, bound, base_opens, opens, socket, pc, last, sends,
                   draws, inbox>>

\* mutant: the task goes for the lock without waiting for its sleep to end
TaskWakeEarly(a, i) ==
    /\ i \in 1..Len(tasks[a])
    /\ tasks[a][i].st = "sleeping"
    /\ IF CanAcquire(a)
       THEN /\ tasks' = [tasks EXCEPT ![a][i].st = "sending"]
            /\ wire' = [wire EXCEPT ![a] = Append(@, WireEntry(a, i))]
       ELSE /\ tasks' = [tasks EXCEPT ![a][i].st = "waiting"]
            /\ UNCHANGED wire
    /\ holders' = [holders EXCEPT ![a] = HoldersAfterWrite(a, i)]
    /\ waitq' = [waitq EXCEPT ![a] = WaitqAfterWrite(a, i)]
    /\ UNCHANGED <<transport, reliable, bound, base_opens, opens, socket, pc, last, sends,
                   draws, inbox>>

\* task i: the sleep is over, it calls socket_clone.write(); with the lock
\* free it goes on to call the wrapped socket's send, else it waits in line
TaskWake(a, i) ==
    /\ i \in 1..Len(tasks[a])
    /\ tasks[a][i].st = "sleeping"
    /\ tasks[a][i].left = 0
    /\ IF CanAcquire(a)
       THEN /\ tasks' = [tasks EXCEPT ![a][i].st = "sending"]
            /\ wire' = [wire EXCEPT ![a] = Append(@, WireEntry(a, i))]
       ELSE /\ tasks' = [tasks EXCEPT ![a][i].st = "waiting"]
            /\ UNCHANGED wire
    /\ holders' = [holders EXCEPT ![a] = HoldersAfterWrite(a, i)]
    /\ waitq' = [waitq EXCEPT ![a] = WaitqAfterWrite(a, i)]
    /\ UNCHANGED <<transport, reliable, bound, base_opens, opens, socket, pc, last, sends,
                   draws, inbox>>

\* task i: the write guard was passed to it while it waited; it calls the
\* wrapped socket's send
TaskSendBegin(a, i) ==
    /\ i \in 1..Len(tasks[a])
    /\ tasks[a][i].st = "waiting"
    /\ i \in holders[a]
    /\ tasks' = [tasks EXCEPT ![a][i].st = "sending"]
    /\ wire' = [wire EXCEPT ![a] = Append(@, WireEntry(a, i))]
    /\ UNCHANGED <<transport, reliable, bound, base_opens, opens, socket, pc, last, sends,
                   draws, holders, waitq, inbox>>

\* mutant: the error of a deferred send is kept and shows up as the value
\* of the owner's last call
LastAfterDeferredSurfaced(a, r) ==
    IF r.tag = "Err" /\ last[a].op \in {"send", "recv"}
    THEN [last EXCEPT ![a].val = r]
    ELSE last

\* what the owner's calls have returned, after a deferred send of peer a
\* ended with r: `let _ =` discards r
LastAfterDeferred(a, r) == last

\* task i: the wrapped send returns, its result is discarded, the guard is
\* dropped and the task ends
TaskSendEnd(a, i) ==
    /\ i \in 1..Len(tasks[a])
    /\ tasks[a][i].st = "sending"
    /\ \E r \in WrappedSendOutcomes :
        /\ inbox' = InboxAfterSend(socket[a].socket, tasks[a][i].to, tasks[a][i].msg, r)
        /\ tasks' = [tasks EXCEPT ![a][i].st = "done", ![a][i].res = r]
        /\ last' = LastAfterDeferred(a, r)
    /\ holders' = [holders EXCEPT ![a] = HoldersAfterDrop(a, i)]
    /\ waitq' = [waitq EXCEPT ![a] = WaitqAfterDrop(a, i)]
    /\ UNCHANGED <<transport, reliable, bound, base_opens, opens, socket, pc, sends,
                   draws, wire>>

\* what recv returns for the wrapped recv's result r
DelayRecvReturn(r) == r

\* recv: the owner calls self.socket.write(); with the lock free it goes on
\* to call the wrapped socket's recv, else it waits in line
SocketWithDelay_recv_call(a) ==
    /\ socket[a].kind = "delay"
    /\ pc[a] = "idle"
    /\ pc' = [pc EXCEPT ![a] = IF CanAcquire(a) THEN "recv_inner" ELSE "recv_lock"]
    /\ holders' = [holders EXCEPT ![a] = HoldersAfterWrite(a, Owner)]
    /\ waitq' = [waitq EXCEPT ![a] = WaitqAfterWrite(a, Owner)]
    /\ UNCHANGED <<transport, reliable, bound, base_opens, opens, socket, last, sends,
                   draws, tasks, inbox, wire>>

\* recv: the write guard was passed to the owner while it waited; it calls
\* the wrapped socket's recv
SocketWithDelay_recv_begin(a) ==
    /\ pc[a] = "recv_lock"
    /\ Owner \in holders[a]
    /\ pc' = [pc EXCEPT ![a] = "recv_inner"]
    /\ UNCHANGED <<transport, reliable, bound, base_opens, opens, socket, last, sends,
                   draws, tasks, holders, waitq, inbox, wire>>

\* recv: the wrapped recv returns, the guard is dropped, recv returns
SocketWithDelay_recv_end(a) ==
    /\ socket[a].kind = "delay"
    /\ pc[a] = "recv_inner"
    /\ \E r \in WrappedRecvOutcomes(socket[a].socket) :
        /\ inbox' = InboxAfterRecv(socket[a].socket, r)
        /\ last' = [last EXCEPT ![a] =
                       [op |-> "recv", val |-> DelayRecvReturn(r), inner |-> r, dropped |-> FALSE]]
    /\ pc' = [pc EXCEPT ![a] = "idle"]
    /\ holders' = [holders EXCEPT ![a] = HoldersAfterDrop(a, Owner)]
    /\ waitq' = [waitq EXCEPT ![a] = WaitqAfterDrop(a, Owner)]
    /\ UNCHANGED <<transport, reliable, bound, base_opens, opens, socket, sends, draws,
                   tasks, wire>>

\* ------------------------------------------------- SocketWithMessageDrop
\* mutant: send reports success whatever the wrapped send returned
DropSendReturnAlwaysOk(should_drop, r) == Ok

\* what send returns: Ok for a dropped message, else the wrapped send's result
DropSendReturn(should_drop, r) == IF should_drop THEN Ok ELSE r

\* send: one Bernoulli draw; on `drop` return Ok, else delegate
SocketWithMessageDrop_send(a, to, message) ==
    /\ socket[a].kind = "drop"
    /\ pc[a] = "idle"
    /\ TotalSends < MaxSends
    /\ \E should_drop \in BernoulliSample(socket[a].drop_probability) :
        IF should_drop
        THEN /\ last' = [last EXCEPT ![a] =
                            [op |-> "send", val |-> DropSendReturn(TRUE, NotCalled),
                             inner |-> NotCalled, dropped |-> TRUE]]
             /\ UNCHANGED <<inbox, wire>>
        ELSE \E r \in WrappedSendOutcomes :
             /\ wire' = [wire EXCEPT ![a] =
                            Append(@, [by |-> Owner, to |-> to, msg |-> message])]
             /\ inbox' = InboxAfterSend(socket[a].socket, to, message, r)
             /\ last' = [last EXCEPT ![a] =
                            [op |-> "send", val |-> DropSendReturn(FALSE, r),
                             inner |-> r, dropped |-> FALSE]]
    /\ sends' = [sends EXCEPT ![a] = @ + 1]
    /\ draws' = [draws EXCEPT ![a] = @ + 1]
    /\ UNCHANGED <<transport, reliable, bound, base_opens, opens, socket, pc, tasks,
                   holders, waitq>>

\* mutant: the drop policy is applied to inbound messages too
DropRecvReturnLossy(r) == IF r.tag = "Ok" THEN Err("RecvErr") ELSE r

\* what recv returns for the wrapped recv's result r
DropRecvReturn(r) == r

\* recv: delegate to the wrapped socket's recv, which suspends until it has
\* a message or fails
SocketWithMessageDrop_recv(a) ==
    /\ socket[a].kind = "drop"
    /\ pc[a] = "idle"
    /\ \E r \in WrappedRecvOutcomes(socket[a].socket) :
        /\ inbox' = InboxAfterRecv(socket[a].socket, r)
        /\ last' = [last EXCEPT ![a] =
                       [op |-> "recv", val |-> DropRecvReturn(r), inner |-> r, dropped |-> FALSE]]
    /\ UNCHANGED <<transport, reliable, bound, base_opens, opens, socket, pc, sends, draws,
                   tasks, holders, waitq, wire>>

\* ------------------------------------------------------------ the system
Next ==
    \/ \E a \in Peers : TransportWithDelay_open(a)
    \/ \E a \in Peers : TransportWithMessageDrop_open(a)
    \/ \E a \in Peers, to \in Peers, m \in Msgs : SocketWithDelay_send(a, to, m)
    \/ Tick
    \/ \E a \in Peers, i \in 1..MaxSends : TaskWake(a, i)
    \/ \E a \in Peers, i \in 1..MaxSends : TaskSendBegin(a, i)
    \/ \E a \in Peers, i \in 1..MaxSends : TaskSendEnd(a, i)
    \/ \E a \in Peers : SocketWithDelay_recv_call(a)
    \/ \E a \in Peers : SocketWithDelay_recv_begin(a)
    \/ \E a \in Peers : SocketWithDelay_recv_end(a)
    \/ \E a \in Peers, to \in Peers, m \in Msgs : SocketWithMessageDrop_send(a, to, m)
    \/ \E a \in Peers : SocketWithMessageDrop_recv(a)

Spec == Init /\ [][Next]_vars

\* Two peers on a delay-decorated transport over a reliable channel, run by
\* a fair scheduler: time passes, a task that can take a step is polled, the
\* wrapped recv returns once a message is there, and an owner between calls
\* calls recv again
InitFair == Init /\ transport.kind = "delay" /\ reliable

NextFair ==
    \/ \E a \in Peers : TransportWithDelay_open(a)
    \/ \E a \in Peers, to \in Peers, m \in Msgs : SocketWithDelay_send(a, to, m)
    \/ Tick
    \/ \E a \in Peers, i \in 1..MaxSends : TaskWake(a, i)
    \/ \E a \in Peers, i \in 1..MaxSends : TaskSendBegin(a, i)
    \/ \E a \in Peers, i \in 1..MaxSends : TaskSendEnd(a, i)
    \/ \E a \in Peers : SocketWithDelay_recv_call(a)
    \/ \E a \in Peers : SocketWithDelay_recv_begin(a)
    \/ \E a \in Peers : SocketWithDelay_recv_end(a)

Fairness ==
    /\ WF_vars(Tick)
    /\ \A a \in Peers :
        /\ WF_vars(SocketWithDelay_recv_call(a))
        /\ WF_vars(SocketWithDelay_recv_begin(a))
        /\ WF_vars(SocketWithDelay_recv_end(a))
        /\ \A i \in 1..MaxSends :
            /\ WF_vars(TaskWake(a, i))
            /\ WF_vars(TaskSendBegin(a, i))
            /\ WF_vars(TaskSendEnd(a, i))

FairSpec == InitFair /\ [][NextFair]_vars /\ Fairness

\* ------------------------------------------------ composed transports
\* the transport the decorators are put around, and what is left after a
\* decorator's construction panicked
Base == [kind |-> "base"]
Panicked == [kind |-> "panicked"]

\* every variable but the transport and the channel's reliability, before
\* any call
Fresh ==
    /\ bound = {}
    /\ base_opens = [a \in Peers |-> 0]
    /\ opens = [a \in Peers |-> 0]
    /\ socket = [a \in Peers |-> NoSocket]
    /\ pc = [a \in Peers |-> "idle"]
    /\ last = [a \in Peers |-> NoCall]
    /\ sends = [a \in Peers |-> 0]
    /\ draws = [a \in Peers |-> 0]
    /\ tasks = [a \in Peers |-> <<>>]
    /\ holders = [a \in Peers |-> {}]
    /\ waitq = [a \in Peers |-> <<>>]
    /\ inbox = [a \in Peers |-> <<>>]
    /\ wire = [a \in Peers |-> <<>>]

\* drop probabilities a caller may pass to drop_message, in percent
AnyProbabilities == {-50, 50, 100, 150}

\* mutant: the probability is taken as it is, Bernoulli::new's error ignored
ValidProbabilityUnchecked(p) == TRUE

\* Bernoulli::new(p) succeeds exactly for 0 <= p <= 1
ValidProbability(p) == 0 <= p /\ p <= 100

\* a transport that can still be decorated here: the base transport, or the
\* base transport under one decorator of the other kind
Wrappable(kind) ==
    \/ transport = Base
    \/ /\ transport.kind \in {"drop", "delay"} \ {kind}
       /\ transport.transport = Base

\* drop_message: Bernoulli::new(drop_probability).unwrap() panics on a
\* probability outside [0, 1]; else the transport is boxed into the decorator
TransportExt_drop_message(drop_probability) ==
    /\ Wrappable("drop")
    /\ transport' = IF ValidProbability(drop_probability)
                    THEN [kind |-> "drop", drop_probability |-> drop_probability,
                          transport |-> transport]
                    ELSE Panicked
    /\ UNCHANGED <<reliable, bound, base_opens, opens, socket, pc, last, sends, draws,
                   tasks, holders, waitq, inbox, wire>>

\* delay: the transport is boxed into the decorator
TransportExt_delay(delay_secs) ==
    /\ Wrappable("delay")
    /\ transport' = [kind |-> "delay", delay_secs |-> delay_secs, transport |-> transport]
    /\ UNCHANGED <<reliable, bound, base_opens, opens, socket, pc, last, sends, draws,
                   tasks, holders, waitq, inbox, wire>>

\* the transport is one decorator around the other around the base transport
Composed ==
    /\ transport.kind \in {"drop", "delay"}
    /\ transport.transport # Base

\* the socket the inner decorator's open builds around the base socket h; rng
\* counts the samples drawn from its own generator
InnerSocket(h) ==
    IF transport.transport.kind = "drop"
    THEN [kind |-> "drop", socket |-> h,
          drop_probability |-> transport.transport.drop_probability, rng |-> 0]
    ELSE [kind |-> "delay", socket |-> h,
          delay_secs |-> transport.transport.delay_secs, rng |-> 0]

\* the socket open of the composed transport returns for the base socket h
ComposedSocket(h) ==
    IF transport.kind = "delay"
    THEN DelaySocket(InnerSocket(h))
    ELSE DropSocket(InnerSocket(h))

\* open of the composed transport: the outer open calls the inner open,
\* which calls the base transport's open; each passes an error on with `?`
\* (one endpoint is opened from it; the other peer is only sent to)
Composed_open(listen_addr) ==
    /\ Composed
    /\ bound = {}
    /\ pc[listen_addr] = "idle"
    /\ TotalOpens < MaxOpens
    /\ \E r \in WrappedOpenOutcomes(OpenAddr(OpenAddr(listen_addr))) :
        OpenStep(listen_addr, r, IF r.tag = "Ok" THEN ComposedSocket(r.socket) ELSE NoSocket)

\* the decorated socket of peer a has a decorated socket inside
IsComposed(a) == socket[a].kind \in {"drop", "delay"} /\ "rng" \in DOMAIN socket[a].socket

\* the base socket under the two decorators of peer a's socket
BaseSocket(a) == socket[a].socket.socket

\* the task's wrapped send ended without the base socket's send being called
Dropped == [tag |-> "Dropped"]

\* mutant: the drop socket calls the wrapped send whatever it drew
InnerSendCalledAlways(should_drop) == TRUE

\* SocketWithMessageDrop::send reaches the wrapped socket's send only when
\* the draw says `pass`
InnerSendCalled(should_drop) == ~should_drop

\* --- t.drop_message(p).delay(d): SocketWithDelay around SocketWithMessageDrop
\* (send is SocketWithDelay_send as it stands)

\* task i: the sleep is over, it calls socket_clone.write(); with the lock
\* free it goes on to call the drop socket's send, else it waits in line
DelayOverDrop_TaskWake(a, i) ==
    /\ IsComposed(a) /\ socket[a].kind = "delay"
    /\ i \in 1..Len(tasks[a])
    /\ tasks[a][i].st = "sleeping"
    /\ tasks[a][i].left = 0
    /\ tasks' = [tasks EXCEPT ![a][i].st = IF CanAcquire(a) THEN "sending" ELSE "waiting"]
    /\ holders' = [holders EXCEPT ![a] = HoldersAfterWrite(a, i)]
    /\ waitq' = [waitq EXCEPT ![a] = WaitqAfterWrite(a, i)]
    /\ UNCHANGED <<transport, reliable, bound, base_opens, opens, socket, pc, last, sends,
                   draws, inbox, wire>>

\* task i: the write guard was passed to it; it calls the drop socket's send
DelayOverDrop_TaskSendBegin(a, i) ==
    /\ IsComposed(a) /\ socket[a].kind = "delay"
    /\ i \in 1..Len(tasks[a])
    /\ tasks[a][i].st = "waiting"
    /\ i \in holders[a]
    /\ tasks' = [tasks EXCEPT ![a][i].st = "sending"]
    /\ UNCHANGED <<transport, reliable, bound, base_opens, opens, socket, pc, last, sends,
                   draws, holders, waitq, inbox, wire>>

\* task i: the drop socket's send draws, calls the base socket's send on
\* `pass`, and returns; the result is discarded, the guard dropped
DelayOverDrop_TaskSendEnd(a, i) ==
    /\ IsComposed(a) /\ socket[a].kind = "delay"
    /\ i \in 1..Len(tasks[a])
    /\ tasks[a][i].st = "sending"
    /\ \E should_drop \in BernoulliSample(socket[a].socket.drop_probability) :
        IF InnerSendCalled(should_drop)
        THEN \E r \in WrappedSendOutcomes :
             /\ wire' = [wire EXCEPT ![a] = Append(@, WireEntry(a, i))]
             /\ inbox' = InboxAfterSend(BaseSocket(a), tasks[a][i].to, tasks[a][i].msg, r)
             /\ tasks' = [tasks EXCEPT ![a][i].st = "done",
                                       ![a][i].res = DropSendReturn(should_drop, r)]
        ELSE /\ tasks' = [tasks EXCEPT ![a][i].st = "done", ![a][i].res = Dropped]
             /\ UNCHANGED <<wire, inbox>>
    /\ socket' = [socket EXCEPT ![a].socket.rng = @ + 1]
    /\ holders' = [holders EXCEPT ![a] = HoldersAfterDrop(a, i)]
    /\ waitq' = [waitq EXCEPT ![a] = WaitqAfterDrop(a, i)]
    /\ UNCHANGED <<transport, reliable, bound, base_opens, opens, pc, last, sends, draws>>

\* --- t.delay(d).drop_message(p): SocketWithMessageDrop around SocketWithDelay
\* mutant: the delay socket's send is reached for dropped messages too
TasksAfterDropSendAlways(a, should_drop, to, message, delay_secs) ==
    Append(tasks[a], NewTask(to, message, delay_secs))

\* the tasks of peer a after the drop socket's send drew should_drop: on
\* `pass` the delay socket's send spawns one
TasksAfterDropSend(a, should_drop, to, message, delay_secs) ==
    IF should_drop THEN tasks[a] ELSE Append(tasks[a], NewTask(to, message, delay_secs))

\* send: one Bernoulli draw; on `drop` return Ok; else the delay socket's
\* send samples a delay, spawns the task and returns Ok
DropOverDelay_send(a, to, message) ==
    /\ IsComposed(a) /\ socket[a].kind = "drop"
    /\ pc[a] = "idle"
    /\ TotalSends < MaxSends
    /\ \E should_drop \in BernoulliSample(socket[a].drop_probability) :
       \E delay_secs \in socket[a].socket.delay_secs :
        /\ tasks' = [tasks EXCEPT ![a] =
                        TasksAfterDropSend(a, should_drop, to, message, delay_secs)]
        /\ socket' = [socket EXCEPT ![a].socket.rng =
                        IF Len(tasks'[a]) > Len(tasks[a]) THEN @ + 1 ELSE @]
        /\ last' = [last EXCEPT ![a] =
                       [op |-> "send", val |-> DropSendReturn(should_drop, Ok),
                        inner |-> IF should_drop THEN NotCalled ELSE Ok,
                        dropped |-> should_drop]]
    /\ sends' = [sends EXCEPT ![a] = @ + 1]
    /\ draws' = [draws EXCEPT ![a] = @ + 1]
    /\ UNCHANGED <<transport, reliable, bound, base_opens, opens, pc, holders, waitq,
                   inbox, wire>>

\* task i: the base socket's send returns, its result is discarded, the
\* guard is dropped and the task ends (TaskWake and TaskSendBegin are as
\* they stand: the socket behind the lock is the base socket)
DropOverDelay_TaskSendEnd(a, i) ==
    /\ IsComposed(a) /\ socket[a].kind = "drop"
    /\ i \in 1..Len(tasks[a])
    /\ tasks[a][i].st = "sending"
    /\ \E r \in WrappedSendOutcomes :
        /\ inbox' = InboxAfterSend(BaseSocket(a), tasks[a][i].to, tasks[a][i].msg, r)
        /\ tasks' = [tasks EXCEPT ![a][i].st = "done", ![a][i].res = r]
        /\ last' = LastAfterDeferred(a, r)
    /\ holders' = [holders EXCEPT ![a] = HoldersAfterDrop(a, i)]
    /\ waitq' = [waitq EXCEPT ![a] = WaitqAfterDrop(a, i)]
    /\ UNCHANGED <<transport, reliable, bound, base_opens, opens, socket, pc, sends,
                   draws, wire>>

\* --- recv through both decorators, in either order: the drop socket
\* delegates, the delay socket takes the write guard around the wrapped recv
Composed_recv_call(a) ==
    /\ IsComposed(a)
    /\ pc[a] = "idle"
    /\ pc' = [pc EXCEPT ![a] = IF CanAcquire(a) THEN "recv_inner" ELSE "recv_lock"]
    /\ holders' = [holders EXCEPT ![a] = HoldersAfterWrite(a, Owner)]
    /\ waitq' = [waitq EXCEPT ![a] = WaitqAfterWrite(a, Owner)]
    /\ UNCHANGED <<transport, reliable, bound, base_opens, opens, socket, last, sends,
                   draws, tasks, inbox, wire>>

Composed_recv_end(a) ==
    /\ IsComposed(a)
    /\ pc[a] = "recv_inner"
    /\ \E r \in WrappedRecvOutcomes(BaseSocket(a)) :
        /\ inbox' = InboxAfterRecv(BaseSocket(a), r)
        /\ last' = [last EXCEPT ![a] =
                       [op |-> "recv", val |-> DropRecvReturn(DelayRecvReturn(r)),
                        inner |-> r, dropped |-> FALSE]]
    /\ pc' = [pc EXCEPT ![a] = "idle"]
    /\ holders' = [holders EXCEPT ![a] = HoldersAfterDrop(a, Owner)]
    /\ waitq' = [waitq EXCEPT ![a] = WaitqAfterDrop(a, Owner)]
    /\ UNCHANGED <<transport, reliable, bound, base_opens, opens, socket, sends, draws,
                   tasks, wire>>

\* the base transport may fail any call (every outcome of a reliable one is
\* among its outcomes)
InitChain == Fresh /\ transport = Base /\ reliable = FALSE

NextChain ==
    \/ \E p \in AnyProbabilities : TransportExt_drop_message(p)
    \/ \E d \in {0..MaxDelay} : TransportExt_delay(d)
    \/ \E a \in Peers : Composed_open(a)
    \/ \E a \in Peers, to \in Peers, m \in Msgs : IsComposed(a) /\ SocketWithDelay_send(a, to, m)
    \/ \E a \in Peers, to \in Peers, m \in Msgs : DropOverDelay_send(a, to, m)
    \/ Tick
    \/ \E a \in Peers, i \in 1..MaxSends : DelayOverDrop_TaskWake(a, i)
    \/ \E a \in Peers, i \in 1..MaxSends : DelayOverDrop_TaskSendBegin(a, i)
    \/ \E a \in Peers, i \in 1..MaxSends : DelayOverDrop_TaskSendEnd(a, i)
    \/ \E a \in Peers, i \in 1..MaxSends :
          IsComposed(a) /\ socket[a].kind = "drop" /\ TaskWake(a, i)
    \/ \E a \in Peers, i \in 1..MaxSends :
          IsComposed(a) /\ socket[a].kind = "drop" /\ TaskSendBegin(a, i)
    \/ \E a \in Peers, i \in 1..MaxSends : DropOverDelay_TaskSendEnd(a, i)
    \/ \E a \in Peers : Composed_recv_call(a)
    \/ \E a \in Peers : SocketWithDelay_recv_begin(a)
    \/ \E a \in Peers : Composed_recv_end(a)

ChainSpec == InitChain /\ [][NextChain]_vars

\* ------------------------------------- lifetime of the wrapped socket
\* what is left of peer a's delay socket once its owner has dropped it: the
\* Arc around the wrapped socket h, kept alive by the tasks' clones
SharedOnly(h) == [kind |-> "arc", socket |-> h]

\* the deferred-delivery tasks of peer a that still hold their clone
Pending(a) == {i \in 1..Len(tasks[a]) : tasks[a][i].st # "done"}

\* the strong count of the Arc around peer a's wrapped socket: the owner's
\* reference and one clone per unfinished task
StrongCount(a) == (IF socket[a].kind = "delay" THEN 1 ELSE 0) + Cardinality(Pending(a))

\* the wrapped socket h is dropped with the last reference: its address is free
BoundAfterRelease(h) == bound \ {h}

\* mutant: the wrapped socket is closed as soon as its owner drops the delay
\* socket, whatever the tasks still hold
SocketWithDelay_drop_closing(a) ==
    /\ socket[a].kind = "delay"
    /\ pc[a] = "idle"
    /\ bound' = BoundAfterRelease(socket[a].socket)
    /\ socket' = [socket EXCEPT ![a] =
                     IF Pending(a) = {} THEN NoSocket ELSE SharedOnly(socket[a].socket)]
    /\ UNCHANGED <<transport, reliable, base_opens, opens, pc, last, sends, draws, tasks,
                   holders, waitq, inbox, wire>>

\* the owner drops its SocketWithDelay: the Arc loses the owner's reference,
\* and the wrapped socket goes with it only if no task holds a clone
SocketWithDelay_drop(a) ==
    /\ socket[a].kind = "delay"
    /\ pc[a] = "idle"
    /\ IF Pending(a) = {}
       THEN /\ bound' = BoundAfterRelease(socket[a].socket)
            /\ socket' = [socket EXCEPT ![a] = NoSocket]
       ELSE /\ socket' = [socket EXCEPT ![a] = SharedOnly(socket[a].socket)]
            /\ UNCHANGED bound
    /\ UNCHANGED <<transport, reliable, base_opens, opens, pc, last, sends, draws, tasks,
                   holders, waitq, inbox, wire>>

\* task i: the wrapped send returns, its result is discarded, the guard is
\* dropped and the task ends, dropping its clone of the Arc: the last
\* reference takes the wrapped socket with it
TaskSendEnd_shared(a, i) ==
    /\ i \in 1..Len(tasks[a])
    /\ tasks[a][i].st = "sending"
    /\ \E r \in WrappedSendOutcomes :
        /\ inbox' = InboxAfterSend(socket[a].socket, tasks[a][i].to, tasks[a][i].msg, r)
        /\ tasks' = [tasks EXCEPT ![a][i].st = "done", ![a][i].res = r]
        /\ last' = LastAfterDeferred(a, r)
    /\ holders' = [holders EXCEPT ![a] = HoldersAfterDrop(a, i)]
    /\ waitq' = [waitq EXCEPT ![a] = WaitqAfterDrop(a, i)]
    /\ IF socket[a].kind = "arc" /\ Pending(a) = {i}
       THEN /\ bound' = BoundAfterRelease(socket[a].socket)
            /\ socket' = [socket EXCEPT ![a] = NoSocket]
       ELSE UNCHANGED <<bound, socket>>
    /\ UNCHANGED <<transport, reliable, base_opens, opens, pc, sends, draws, wire>>

\* a delay-decorated transport whose delays vary, over a base transport that
\* may fail any call
InitLife ==
    /\ Fresh
    /\ transport = [kind |-> "delay", delay_secs |-> 0..MaxDelay]
    /\ reliable = FALSE

\* one endpoint is open at a time; the other peer is only sent to
NextLife ==
    \/ \E a \in Peers : bound = {} /\ TransportWithDelay_open(a)
    \/ \E a \in Peers, to \in Peers, m \in Msgs : SocketWithDelay_send(a, to, m)
    \/ \E a \in Peers : SocketWithDelay_drop(a)
    \/ Tick
    \/ \E a \in Peers, i \in 1..MaxSends : TaskWake(a, i)
    \/ \E a \in Peers, i \in 1..MaxSends : TaskSendBegin(a, i)
    \/ \E a \in Peers, i \in 1..MaxSends : TaskSendEnd_shared(a, i)
    \/ \E a \in Peers : SocketWithDelay_recv_call(a)
    \/ \E a \in Peers : SocketWithDelay_recv_begin(a)
    \/ \E a \in Peers : SocketWithDelay_recv_end(a)

\* tokio runs every task that can take a step, and time passes
FairnessLife ==
    /\ WF_vars(Tick)
    /\ \A a \in Peers : \A i \in 1..MaxSends :
        /\ WF_vars(TaskWake(a, i))
        /\ WF_vars(TaskSendBegin(a, i))
        /\ WF_vars(TaskSendEnd_shared(a, i))

LifeSpec == InitLife /\ [][NextLife]_vars /\ FairnessLife

\* ----------------------------------- a distribution gone out of contract
\* a delay-decorated transport whose distribution may yield a negative number
\* of seconds, over a base transport that may fail any call
InitNeg ==
    /\ Fresh
    /\ transport = [kind |-> "delay", delay_secs |-> (-1)..MaxDelay]
    /\ reliable = FALSE

NegSpec == InitNeg /\ [][NextFair]_vars

\* ------------------------------------------------------------ the claims
\* C1: send on a delay-decorated socket never waits.  Whenever the owner of
\* an open delay-decorated socket is between calls, send can be taken at once,
\* whoever holds or waits for the lock and however many deliveries are still
\* asleep; and the one step it takes returns Ok, leaves the owner between
\* calls again and neither takes nor queues for the lock.
C1_SendNeverWaits ==
    /\ [](\A a \in Peers :
            (socket[a].kind = "delay" /\ pc[a] = "idle" /\ TotalSends < MaxSends)
            => ENABLED (\E to \in Peers, m \in Msgs : SocketWithDelay_send(a, to, m)))
    /\ [][\A a \in Peers :
            (\E to \in Peers, m \in Msgs : SocketWithDelay_send(a, to, m))
            => /\ last'[a].op = "send" /\ last'[a].val = Ok
               /\ pc'[a] = "idle"
               /\ holders' = holders /\ waitq' = waitq
               /\ Len(tasks'[a]) = Len(tasks[a]) + 1
               /\ tasks'[a][Len(tasks'[a])].st = "sleeping"
               /\ wire' = wire]_vars

\* C1 witness: send has just returned while an earlier deferred delivery
\* holds the lock inside the wrapped send and the new one has not moved
C1_Witness ==
    \E a \in Peers :
        /\ Len(tasks[a]) = 2
        /\ tasks[a][1].st = "sending"
        /\ tasks[a][2].st = "sleeping" /\ tasks[a][2].left = tasks[a][2].delay
        /\ last[a].op = "send" /\ last[a].val = Ok
        /\ pc[a] = "idle"

\* C2: at most one call of the wrapped socket's send or recv is in progress
\* at any time, and whoever is inside one holds the lock
C2_NoOverlap ==
    \A a \in Peers : Cardinality(InFlight(a)) <= 1 /\ InFlight(a) \subseteq holders[a]

\* C2 witness: a deferred delivery is inside the wrapped send while another
\* delivery and the owner's recv both wait for the lock
C2_Witness ==
    \E a \in Peers :
        /\ pc[a] = "recv_lock"
        /\ \E i, j \in 1..Len(tasks[a]) :
              tasks[a][i].st = "sending" /\ tasks[a][j].st = "waiting"

\* C3: every deferred-delivery task whose delay has elapsed eventually takes
\* the lock and calls the wrapped socket's send
C3_TaskCompletes ==
    \A a \in Peers, i \in 1..MaxSends :
        (i <= Len(tasks[a]) /\ tasks[a][i].left = 0)
        ~> (i <= Len(tasks[a]) /\ tasks[a][i].st \in {"sending", "done"})

\* C4: between two peers with delay-decorated sockets over a reliable
\* channel that have each sent the other a message, every message passed to
\* send is eventually returned, unmodified and with its sender's address, by
\* a recv call of the destination peer
C4_RoundTrip ==
    \A a \in Peers, b \in Peers, m \in Msgs :
        (/\ a # b
         /\ socket[a].kind = "delay" /\ socket[b].kind = "delay"
         /\ \E i \in 1..Len(tasks[a]) : tasks[a][i].to = b /\ tasks[a][i].msg = m
         /\ \E i \in 1..Len(tasks[b]) : tasks[b][i].to = a)
        ~> (last[b].op = "recv" /\ last[b].val = OkMsg(a, m))

\* C5: through a drop-decorated socket with drop probability 1 the wrapped
\* socket's send is never called, nothing is ever delivered and every send
\* returns Ok; with drop probability 0 the wrapped socket's send has been
\* called once for every send call made
C5_DropAllOrNothing ==
    \A a \in Peers :
        socket[a].kind = "drop" =>
            /\ socket[a].drop_probability = 100 =>
                  /\ wire[a] = <<>>
                  /\ \A b \in Peers : inbox[b] = <<>>
                  /\ last[a].op = "send" => last[a].val = Ok
            /\ socket[a].drop_probability = 0 => Len(wire[a]) = sends[a]

\* C5 witness: two sends went through a socket that drops everything, over a
\* wrapped transport that can fail
C5_Witness ==
    \E a \in Peers :
        /\ socket[a].kind = "drop"
        /\ socket[a].drop_probability = 100
        /\ ~reliable
        /\ sends[a] >= 2
        /\ last[a].op = "send"

\* C6: every send on a drop-decorated socket draws exactly once; a dropped
\* message returns Ok and leaves the wrapped socket and the network alone; a
\* passed message calls the wrapped send exactly once, with the same
\* destination and message, and returns exactly what it returned
C6_DropSendOutcome ==
    [][\A a \in Peers :
          (\E to \in Peers, m \in Msgs : SocketWithMessageDrop_send(a, to, m))
          => /\ draws'[a] = draws[a] + 1
             /\ last'[a].op = "send"
             /\ last'[a].dropped =>
                   /\ last'[a].val = Ok
                   /\ wire' = wire
                   /\ inbox' = inbox
             /\ ~last'[a].dropped =>
                   /\ Len(wire'[a]) = Len(wire[a]) + 1
                   /\ last'[a].inner \in {Ok, Err("SendErr")}
                   /\ last'[a].val = last'[a].inner
                   /\ (last'[a].val = Ok) = (inbox' # inbox)]_vars

\* C6 witness: a send that was passed on returned the wrapped send's error
C6_Witness ==
    \E a \in Peers :
        /\ socket[a].kind = "drop"
        /\ last[a].op = "send"
        /\ ~last[a].dropped
        /\ last[a].val = Err("SendErr")

\* C7: a failure of the wrapped send inside a deferred-delivery task is
\* discarded.  No send or recv on a delay-decorated socket ever returns the
\* wrapped send's error and every send returns Ok; the step in which the
\* wrapped send fails ends the task, gives up the lock, and changes neither
\* the decorated socket nor the owner's position nor what its calls returned
C7_DeferredErrorDiscarded ==
    /\ [](\A a \in Peers :
            (socket[a].kind = "delay" /\ last[a].op \in {"send", "recv"})
            => /\ last[a].val # Err("SendErr")
               /\ last[a].op = "send" => last[a].val = Ok)
    /\ [][\A a \in Peers, i \in 1..MaxSends :
            (TaskSendEnd(a, i) /\ tasks'[a][i].res.tag = "Err")
            => /\ tasks'[a][i].st = "done"
               /\ i \notin holders'[a]
               /\ socket' = socket
               /\ pc' = pc
               /\ last' = last
               /\ inbox' = inbox
               /\ \A j \in 1..Len(tasks[a]) : j # i => tasks'[a][j] = tasks[a][j]]_vars

\* C7 witness: a deferred send failed, the lock is free again, and a later
\* recv of the same socket returned a message
C7_Witness ==
    \E a \in Peers :
        /\ Len(tasks[a]) >= 1
        /\ tasks[a][1].st = "done"
        /\ tasks[a][1].res = Err("SendErr")
        /\ holders[a] = {}
        /\ last[a].op = "recv"
        /\ last[a].val.tag = "Ok"

\* the decorated socket open must build around the wrapped socket h
ExpectedSocket(h) ==
    IF transport.kind = "delay"
    THEN [kind |-> "delay", socket |-> h, delay_secs |-> transport.delay_secs]
    ELSE [kind |-> "drop", socket |-> h, drop_probability |-> transport.drop_probability]

\* C8: an open call of either decorator calls the wrapped transport's open
\* exactly once, with the same address; on failure it returns that very
\* error and creates no socket; on success it returns a socket wrapping the
\* socket the wrapped open returned, with the transport's policy parameter
C8_OpenDelegates ==
    [][\A a \in Peers :
          (TransportWithDelay_open(a) \/ TransportWithMessageDrop_open(a))
          => /\ base_opens' = [base_opens EXCEPT ![a] = @ + 1]
             /\ last'[a].op = "open"
             /\ last'[a].inner \in WrappedOpenOutcomes(a)
             /\ last'[a].inner.tag = "Err" =>
                   /\ last'[a].val = last'[a].inner
                   /\ socket' = socket
             /\ last'[a].inner.tag = "Ok" =>
                   /\ last'[a].val = Ok
                   /\ socket' = [socket EXCEPT ![a] = ExpectedSocket(last'[a].inner.socket)]]_vars

\* C8 witness: a second open of an address failed with the wrapped
\* transport's error and left the socket of the first open in place
C8_Witness ==
    \E a \in Peers :
        /\ last[a].op = "open"
        /\ last[a].val = Err("AddrInUse")
        /\ socket[a] # NoSocket
        /\ opens[a] = 2

\* C9: recv on either decorated socket returns exactly what the wrapped
\* socket's recv returns: the oldest message delivered to it, which leaves
\* the network exactly once and unaltered, or the wrapped recv's error, which
\* leaves the network as it was; recv draws no random number and spawns nothing
C9_RecvDelegates ==
    [][\A a \in Peers :
          (SocketWithMessageDrop_recv(a) \/ SocketWithDelay_recv_end(a))
          => /\ last'[a].op = "recv"
             /\ last'[a].val = last'[a].inner
             /\ \/ /\ inbox[a] # <<>>
                   /\ last'[a].val = OkMsg(Head(inbox[a]).from, Head(inbox[a]).msg)
                   /\ inbox' = [inbox EXCEPT ![a] = Tail(@)]
                \/ /\ last'[a].val = Err("RecvErr")
                   /\ inbox' = inbox
             /\ draws' = draws
             /\ tasks' = tasks
             /\ wire' = wire]_vars

\* C9 witness: recv on a socket that drops outgoing messages half of the
\* time returned a message
C9_Witness ==
    \E a \in Peers :
        /\ socket[a].kind = "drop"
        /\ socket[a].drop_probability = 50
        /\ last[a].op = "recv"
        /\ last[a].val.tag = "Ok"

\* C10: deliveries are not serialized in submission order.  Whenever a
\* deferred delivery's delay has elapsed and the lock is free, its call of
\* the wrapped send can be the next one made, although a delivery submitted
\* before it is still asleep
C10_CanOvertake ==
    \A a \in Peers : \A i, j \in 1..Len(tasks[a]) :
        (/\ i < j
         /\ tasks[a][i].st = "sleeping" /\ tasks[a][i].left > 0
         /\ tasks[a][j].st = "sleeping" /\ tasks[a][j].left = 0
         /\ CanAcquire(a))
        => ENABLED (TaskWake(a, j) /\ wire'[a] = Append(wire[a], WireEntry(a, j)))

\* C10 witness: send(A) was called before send(B), B's sampled delay is the
\* shorter one, and the wrapped send was called for B before it was for A
C10_Witness ==
    \E a \in Peers :
        /\ Len(tasks[a]) = 2
        /\ tasks[a][2].delay < tasks[a][1].delay
        /\ Len(wire[a]) = 2
        /\ wire[a][1].by = 2
        /\ wire[a][2].by = 1

\* peer a's socket was opened from t.drop_message(p).delay(d): a delay socket
\* around a drop socket
DelayOverDrop(a) == IsComposed(a) /\ socket[a].kind = "delay"

\* peer a's socket was opened from t.delay(d).drop_message(p): a drop socket
\* around a delay socket
DropOverDelay(a) == IsComposed(a) /\ socket[a].kind = "drop"

DropProbabilityOf(a) ==
    IF socket[a].kind = "drop" THEN socket[a].drop_probability
    ELSE socket[a].socket.drop_probability

\* C13: in either chaining order with drop probability 1.0, every send
\* returns Ok and the base transport's socket send is never invoked
C13_DropAllEitherOrder ==
    /\ [](\A a \in Peers :
            (IsComposed(a) /\ DropProbabilityOf(a) = 100) =>
                /\ wire[a] = <<>>
                /\ \A b \in Peers : inbox[b] = <<>>
                /\ \A i \in 1..Len(tasks[a]) : tasks[a][i].res \in {NotCalled, Dropped}
                /\ last[a].op = "send" => last[a].val = Ok)
    /\ [][\A a \in Peers, to \in Peers, m \in Msgs :
            (/\ IsComposed(a) /\ DropProbabilityOf(a) = 100
             /\ SocketWithDelay_send(a, to, m) \/ DropOverDelay_send(a, to, m))
                => last'[a].op = "send" /\ last'[a].val = Ok /\ pc'[a] = "idle"]_vars

\* C13 witness: two sends on a socket of t.delay(d).drop_message(1.0) have
\* returned Ok and nothing was scheduled or sent
C13_Witness ==
    \E a \in Peers :
        /\ DropOverDelay(a) /\ socket[a].drop_probability = 100
        /\ sends[a] = 2
        /\ last[a].op = "send" /\ last[a].val = Ok
        /\ tasks[a] = <<>>

\* the drop probabilities held by the transport and by the sockets opened
\* from it
HeldProbabilities ==
    (IF transport.kind = "drop" THEN {transport.drop_probability}
     ELSE IF Composed /\ transport.transport.kind = "drop"
          THEN {transport.transport.drop_probability} ELSE {})
    \cup {DropProbabilityOf(a) : a \in {b \in Peers : IsComposed(b)}}

\* C14: drop_message rejects a probability outside [0, 1] by panicking, which
\* yields no transport: nothing is ever opened or called after it. So every
\* probability a transport or socket holds is within [0, 1], no call on them
\* panics, and every error a call returns is the wrapped transport's own
C14_RejectedAtConstruction ==
    /\ [][\A p \in AnyProbabilities :
            TransportExt_drop_message(p) =>
                IF p < 0 \/ p > 100
                THEN transport' = Panicked
                ELSE transport'.kind = "drop" /\ transport'.drop_probability = p]_vars
    /\ [](transport = Panicked => Fresh)
    /\ [](\A p \in HeldProbabilities : 0 <= p /\ p <= 100)
    /\ [](\A a \in Peers :
            /\ pc[a] # "panicked"
            /\ (last[a] # NoCall /\ last[a].val # Ok) => last[a].val = last[a].inner)

\* C14 witness: drop_message with a probability outside [0, 1] has panicked
\* and left no transport to decorate further or to open
C14_Witness ==
    /\ transport = Panicked
    /\ ~ENABLED (\E a \in Peers : Composed_open(a))
    /\ ~ENABLED (\E d \in {0..MaxDelay} : TransportExt_delay(d))

\* C15: the decorators act on the envelope only: every (destination,
\* message) pair handed to the wrapped socket's send is the pair of an
\* earlier send call on the decorated socket, and no send call causes more
\* than one call of the wrapped send
C15_EnvelopeOnly ==
    /\ [][\A a \in Peers, to \in Peers, m \in Msgs :
            /\ SocketWithMessageDrop_send(a, to, m) =>
                  /\ wire'[a] \in {wire[a], Append(wire[a], [by |-> Owner, to |-> to, msg |-> m])}
                  /\ \A b \in Peers \ {a} : wire'[b] = wire[b]
            /\ SocketWithDelay_send(a, to, m) =>
                  /\ wire' = wire
                  /\ Len(tasks'[a]) = Len(tasks[a]) + 1
                  /\ tasks'[a][Len(tasks'[a])].to = to
                  /\ tasks'[a][Len(tasks'[a])].msg = m]_vars
    /\ [][\A a \in Peers : \A i \in 1..Len(tasks[a]) :
            tasks'[a][i].to = tasks[a][i].to /\ tasks'[a][i].msg = tasks[a][i].msg]_vars
    /\ [](\A a \in Peers :
            /\ Len(wire[a]) <= sends[a]
            /\ socket[a].kind = "delay" =>
                  \A k \in 1..Len(wire[a]) :
                      /\ wire[a][k].by \in 1..Len(tasks[a])
                      /\ wire[a][k].to = tasks[a][wire[a][k].by].to
                      /\ wire[a][k].msg = tasks[a][wire[a][k].by].msg
                      /\ \A j \in 1..Len(wire[a]) : wire[a][j].by = wire[a][k].by => j = k)

\* C15 witness: two sends with different envelopes on a delay socket have
\* both reached the wrapped send, the later one first
C15_Witness ==
    \E a \in Peers :
        /\ socket[a].kind = "delay"
        /\ Len(wire[a]) = 2
        /\ wire[a][1].by = 2 /\ wire[a][2].by = 1
        /\ wire[a][1].to # wire[a][2].to
        /\ wire[a][1].msg # wire[a][2].msg

\* the steps a deferred-delivery task takes, in order
TaskOrder ==
    {<<"sleeping", "waiting">>, <<"sleeping", "sending">>, <<"waiting", "sending">>,
     <<"sending", "done">>}

\* peer a's task i is a position of waitq[a]
InWaitq(a, i) == \E k \in 1..Len(waitq[a]) : waitq[a][k] = i

\* C16: a deferred-delivery task sleeps, then takes the lock, then calls the
\* wrapped send, then releases the lock: the wrapped send is never called
\* before the task's delay has elapsed nor from within the caller's send
\* (even for delay 0), and the lock is never held or asked for while asleep
C16_SleepLockSendRelease ==
    /\ [](\A a \in Peers : \A i \in 1..Len(tasks[a]) :
            /\ tasks[a][i].st = "sleeping" => i \notin holders[a] /\ ~InWaitq(a, i)
            /\ tasks[a][i].st = "waiting" => tasks[a][i].left = 0 /\ i \notin InFlight(a)
            /\ tasks[a][i].st = "sending" => tasks[a][i].left = 0 /\ i \in holders[a]
            /\ tasks[a][i].st = "done" => tasks[a][i].left = 0 /\ i \notin holders[a])
    /\ [](\A a \in Peers : socket[a].kind = "delay" =>
            \A k \in 1..Len(wire[a]) :
                /\ tasks[a][wire[a][k].by].st \in {"sending", "done"}
                /\ tasks[a][wire[a][k].by].left = 0)
    /\ [][\A a \in Peers : \A i \in 1..Len(tasks[a]) :
            tasks'[a][i].st # tasks[a][i].st =>
                <<tasks[a][i].st, tasks'[a][i].st>> \in TaskOrder]_vars
    /\ [][\A a \in Peers, to \in Peers, m \in Msgs :
            SocketWithDelay_send(a, to, m) =>
                /\ wire' = wire /\ inbox' = inbox /\ holders' = holders /\ waitq' = waitq
                /\ tasks'[a][Len(tasks'[a])].st = "sleeping"]_vars

\* C16 witness: a task with delay 1 has slept, holds the lock and is inside
\* the wrapped send while a task spawned by a later send is still asleep
C16_Witness ==
    \E a \in Peers :
        /\ Len(tasks[a]) = 2
        /\ tasks[a][1].delay = 1 /\ tasks[a][1].left = 0 /\ tasks[a][1].st = "sending"
        /\ tasks[a][2].st = "sleeping" /\ tasks[a][2].left = 1
        /\ holders[a] = {1}
        /\ Len(wire[a]) = 1

\* C17: the wrapped socket is shared by reference count between the owning
\* SocketWithDelay and its tasks: it is not released while the owner or any
\* pending deferred delivery holds it, also after the owner dropped the
\* delay socket; it is released once none of them holds it; and every
\* delivery pending when the owner is gone still calls the wrapped send
C17_SharedUntilLastUse ==
    /\ [](\A a \in Peers :
            /\ StrongCount(a) > 0 => a \in bound /\ socket[a].socket = a
            /\ StrongCount(a) = 0 => a \notin bound /\ socket[a] = NoSocket
            /\ socket[a].kind = "arc" => Pending(a) # {})
    /\ [][\A a \in Peers :
            SocketWithDelay_drop(a) => tasks' = tasks /\ holders' = holders /\ waitq' = waitq]_vars
    /\ \A a \in Peers : \A i \in 1..MaxSends :
          (socket[a].kind = "arc" /\ i \in Pending(a))
              ~> (/\ i \in 1..Len(tasks[a])
                  /\ tasks[a][i].st = "done"
                  /\ \E k \in 1..Len(wire[a]) : wire[a][k].by = i)

\* C17 witness: the owner has dropped its delay socket, one deferred
\* delivery has since completed and another is still asleep, and the
\* wrapped socket is still open
C17_Witness ==
    \E a \in Peers :
        /\ socket[a].kind = "arc"
        /\ a \in bound
        /\ Len(tasks[a]) = 2
        /\ tasks[a][1].st = "done" /\ tasks[a][2].st = "sleeping"
        /\ StrongCount(a) = 1

====
